---- MODULE Spec2Model ----
(***************************************************************************)
(* CircAcqBuffer<T> (src/CircAcqBuffer.h): a push-only ring of ring_size   *)
(* element handles plus one locked_out_buffer handle, one std::mutex per   *)
(* ring position and the atomic `locked` word.  One producer thread        *)
(* (push, lock_out_head/release_head, clear) and one consumer thread       *)
(* (lock_out_nowait, lock_out_wait, release).  A program counter names the *)
(* source line a thread is at; element_size is 1, a frame is one T value.  *)
(* The arguments and locals of a call are reset when the call returns, and *)
(* its results when the next call is made.  std::mutex has no member       *)
(* release(): the locks[requested].release() of line 103 is whatever the   *)
(* build supplies for it, an unlock() or a call that leaves the mutex      *)
(* locked.  clear() runs line by line like every other call, so the        *)
(* consumer can run between two of its steps.                              *)
(***************************************************************************)
EXTENDS Integers, Sequences, FiniteSets

\* ---------------------------------------------------------------- bounds
MaxRing == 2      \* ring sizes 1..MaxRing are constructed
MaxPushes == 4    \* pushes since construction / the last clear
MaxLatest == 20   \* get_latest_index() is applied to counts this close to a multiple of 2^31
MaxHigh == 2      \* ... and up to this multiple of 2^31

\* ---------------------------------------------------- program constants
EmptyCount == -1          \* count of an element never pushed to
NoneLocked == -1          \* locked: nothing is locked out
Busy == -2                \* locked: lock-out in progress
Failure == -1             \* lock_out_nowait's failure return
SpareIndex == -1          \* locked_out_buffer->index = -1 (the value assigned; the field is unsigned and never read)
IntMax == 2147483647      \* the largest int: get_latest_index() returns int

\* T values: the buffer only copies frames and never inspects them, so two
\* distinct values tell every frame from every other one
Frames == {10, 20}
Requests == 0..MaxPushes   \* lock-out requests n

VARIABLES
    ring_size,          \* number of ring positions
    ring,               \* ring position -> element id
    locked_out_buffer,  \* element id
    elem,               \* element id -> [arr, index, count]
    head,               \* next ring position to receive a push
    count,              \* cumulative count (a long): its bits 0..30
    count_hi,           \* cumulative count: its bits from 31 up, count div 2^31
    locks,              \* ring position -> "free" | "producer" | "consumer"
    locked,             \* the atomic int
    ppc,                \* producer: source line it is at, or "idle"
    psrc,               \* producer: the frame passed to the push in progress
    pret,               \* producer: ring position the last push returned (-1: in progress)
    ci,                 \* producer: loop variable i of the clear() in progress
    cpc,                \* consumer: source line it is at, or "idle"
    creq,               \* consumer: argument n of the lock-out in progress
    requested,          \* consumer: local `requested` of the lock-out in progress
    cret,               \* consumer: the long the last call returned (0: in progress)
    cbuf,               \* consumer: element whose arr the last call stored in *buffer (-1: none)
    cexit,              \* consumer: return statement the last call left through
    outstanding,        \* history: a lock-out has returned and neither release() nor clear() has run since
    pushed,             \* history: the frames of the last ring_size stamps since construction / the last clear
    completed,          \* history: pushes returned since construction / the last clear
    overlap             \* history: a clear() and a consumer call have been in progress together

bufvars == <<ring_size, ring, locked_out_buffer, elem, head, count, count_hi, locks, locked>>
pvars == <<ppc, psrc, pret, ci>>
cvars == <<cpc, creq, requested, cret, cbuf, cexit>>
hvars == <<outstanding, pushed, completed, overlap>>
vars == <<bufvars, pvars, cvars, hvars>>

\* --------------------------------------------------------------- helpers
\* C++ a % b for b > 0 (truncating division)
CRem(a, b) == IF a >= 0 THEN a % b ELSE -((-a) % b)

mod2(a, b) ==
    LET r == CRem(a, b) IN IF r < 0 THEN r + b ELSE r

Positions == 0..(ring_size - 1)
Elements == 0..ring_size

\* mutant of SomethingLockedOut: only a recorded position counts as locked out
SomethingLockedOut_position == locked >= 0

\* locked.load() != -1
SomethingLockedOut == locked # NoneLocked

\* std::mutex::try_lock succeeds exactly on a free mutex (it also fails on a
\* mutex the caller itself left locked)
TryLock(p) == locks[p] = "free"

\* std::mutex::unlock by `who`: frees the caller's own mutex; on a mutex the
\* caller does not own the behaviour is undefined (freed, or left as it is)
UnlockOutcomes(p, who) ==
    IF locks[p] = who THEN {"free"} ELSE {"free", locks[p]}

\* locks[requested].release() of line 103: std::mutex has no such member, a
\* build that compiles supplies one that unlocks or one that gives the mutex
\* up without unlocking it
ReleaseOutcomes(p) == {"free", locks[p]}

\* the producer is inside clear()
Clearing ==
    ppc \in {"clear_171", "clear_172", "clear_173", "clear_174", "clear_176",
            "clear_178", "clear_179", "clear_180"}

\* int get_latest_index() { return count; }: the long count is narrowed to
\* int, which keeps its low 32 bits as a two's complement number (bit 31 is
\* the lowest bit of count_hi)
get_latest_index ==
    IF count_hi % 2 = 1 THEN count - IntMax - 1 ELSE count

\* mutant of lock_out_: a real swap, the spare goes into ring position n
lock_out__swap(n) ==
    LET tmp == locked_out_buffer
        lob == ring[n]
    IN [ring |-> [ring EXCEPT ![n] = tmp],
        locked_out_buffer |-> lob]

\* void _lock_out(unsigned int n), lines 50-52: tmp = locked_out_buffer;
\* locked_out_buffer = ring[n]; ring[n] = locked_out_buffer; the new ring and
\* locked_out_buffer (line 55 is a step of its own in each caller)
lock_out_(n) ==
    LET tmp == locked_out_buffer
        lob == ring[n]
    IN [ring |-> [ring EXCEPT ![n] = lob],
        locked_out_buffer |-> lob]

\* history: pushed with frame f appended, cut to the last ring_size frames
Remember(f) ==
    LET all == Append(pushed, f)
    IN IF Len(all) > ring_size THEN Tail(all) ELSE all

\* history: the frame stamped with count n, for n among the last Len(pushed) stamps
FrameOf(n) == pushed[n - (count - Len(pushed))]

\* ------------------------------------------------------------------ Init
\* State after CircAcqBuffer(number_of_buffers, frame_size); new T[] storage
\* is uninitialised, so the arr of each ring element starts with an arbitrary
\* T value.  No operation reads or writes the arr of the element
\* locked_out_buffer starts at (*buffer is set only after _lock_out has made
\* locked_out_buffer a ring element), so one value stands for its content.
Init ==
    /\ ring_size \in 1..MaxRing
    /\ ring = [i \in 0..(ring_size - 1) |-> i]
    /\ locked_out_buffer = ring_size
    /\ \E a \in [0..(ring_size - 1) -> Frames] :
         elem = [e \in 0..ring_size |->
                   [arr |-> IF e = ring_size THEN 10 ELSE a[e],
                    index |-> IF e = ring_size THEN SpareIndex ELSE e,
                    count |-> EmptyCount]]
    /\ head = 0
    /\ count = 0 /\ count_hi = 0
    /\ locks = [i \in 0..(ring_size - 1) |-> "free"]
    /\ locked = NoneLocked
    /\ ppc = "idle" /\ psrc = 10 /\ pret = -1 /\ ci = 0
    /\ cpc = "idle" /\ creq = 0 /\ requested = 0 /\ cret = 0 /\ cbuf = -1
    /\ cexit = "none"
    /\ outstanding = FALSE
    /\ pushed = <<>>
    /\ completed = 0
    /\ overlap = FALSE

\* ------------------------------------------------------------- producer
\* push(src) is called
PushCall(f) ==
    /\ ppc = "idle" /\ count_hi = 0 /\ count < MaxPushes
    /\ ppc' = "push_133" /\ psrc' = f /\ pret' = -1
    /\ UNCHANGED <<bufvars, ci, cvars, hvars>>

\* while (!locks[head].try_lock());
Push133 ==
    /\ ppc = "push_133" /\ TryLock(head)
    /\ locks' = [locks EXCEPT ![head] = "producer"]
    /\ ppc' = "push_134"
    /\ UNCHANGED <<ring_size, ring, locked_out_buffer, elem, head, count, count_hi, locked,
                   psrc, pret, ci, cvars, hvars>>

\* memcpy(ring[head]->arr, src, ...)
Push134 ==
    /\ ppc = "push_134"
    /\ elem' = [elem EXCEPT ![ring[head]].arr = psrc]
    /\ ppc' = "push_135"
    /\ UNCHANGED <<ring_size, ring, locked_out_buffer, head, count, count_hi, locks, locked,
                   psrc, pret, ci, cvars, hvars>>

\* count += 1; ring[head]->count = count; (count < MaxPushes: no carry)
Push135 ==
    /\ ppc = "push_135"
    /\ count' = count + 1 /\ count_hi' = count_hi
    /\ elem' = [elem EXCEPT ![ring[head]].count = count + 1]
    /\ pushed' = Remember(elem[ring[head]].arr)
    /\ ppc' = "push_137"
    /\ UNCHANGED <<ring_size, ring, locked_out_buffer, head, locks, locked,
                   psrc, pret, ci, cvars, outstanding, completed, overlap>>

\* mutant of Push137: the head is not advanced
Push137_nohead ==
    /\ ppc = "push_137"
    /\ head' = head
    /\ \E o \in UnlockOutcomes(head, "producer") : locks' = [locks EXCEPT ![head] = o]
    /\ pret' = head
    /\ completed' = completed + 1
    /\ ppc' = "idle" /\ psrc' = 10
    /\ UNCHANGED <<ring_size, ring, locked_out_buffer, elem, count, count_hi, locked,
                   ci, cvars, outstanding, pushed, overlap>>

\* oldhead = head; head = mod2(head + 1, ring_size); locks[oldhead].unlock(); return oldhead;
Push137 ==
    /\ ppc = "push_137"
    /\ head' = mod2(head + 1, ring_size)
    /\ \E o \in UnlockOutcomes(head, "producer") : locks' = [locks EXCEPT ![head] = o]
    /\ pret' = head
    /\ completed' = completed + 1
    /\ ppc' = "idle" /\ psrc' = 10
    /\ UNCHANGED <<ring_size, ring, locked_out_buffer, elem, count, count_hi, locked,
                   ci, cvars, outstanding, pushed, overlap>>

\* lock_out_head() is called
LockOutHeadCall ==
    /\ ppc = "idle" /\ count_hi = 0 /\ count < MaxPushes
    /\ ppc' = "loh_146" /\ pret' = -1
    /\ UNCHANGED <<bufvars, psrc, ci, cvars, hvars>>

\* while (!locks[head].try_lock()); return ring[head]->arr;
LockOutHead146 ==
    /\ ppc = "loh_146" /\ TryLock(head)
    /\ locks' = [locks EXCEPT ![head] = "producer"]
    /\ ppc' = "head_out"
    /\ UNCHANGED <<ring_size, ring, locked_out_buffer, elem, head, count, count_hi, locked,
                   psrc, pret, ci, cvars, hvars>>

\* the caller copies a frame into the array lock_out_head returned
WriteHead(f) ==
    /\ ppc = "head_out"
    /\ elem' = [elem EXCEPT ![ring[head]].arr = f]
    /\ UNCHANGED <<ring_size, ring, locked_out_buffer, head, count, count_hi, locks, locked,
                   pvars, cvars, hvars>>

\* release_head(): count += 1; ring[head]->count = count;
ReleaseHead152 ==
    /\ ppc = "head_out"
    /\ count' = count + 1 /\ count_hi' = count_hi
    /\ elem' = [elem EXCEPT ![ring[head]].count = count + 1]
    /\ pushed' = Remember(elem[ring[head]].arr)
    /\ ppc' = "rh_154"
    /\ UNCHANGED <<ring_size, ring, locked_out_buffer, head, locks, locked,
                   psrc, pret, ci, cvars, outstanding, completed, overlap>>

\* mutant of ReleaseHead154: returns the new head, not oldhead
ReleaseHead154_newhead ==
    /\ ppc = "rh_154"
    /\ head' = mod2(head + 1, ring_size)
    /\ \E o \in UnlockOutcomes(head, "producer") : locks' = [locks EXCEPT ![head] = o]
    /\ pret' = mod2(head + 1, ring_size)
    /\ completed' = completed + 1
    /\ ppc' = "idle" /\ psrc' = 10
    /\ UNCHANGED <<ring_size, ring, locked_out_buffer, elem, count, count_hi, locked,
                   ci, cvars, outstanding, pushed, overlap>>

\* release_head(): oldhead = head; head = mod2(head + 1, ring_size); locks[oldhead].unlock(); return oldhead;
ReleaseHead154 ==
    /\ ppc = "rh_154"
    /\ head' = mod2(head + 1, ring_size)
    /\ \E o \in UnlockOutcomes(head, "producer") : locks' = [locks EXCEPT ![head] = o]
    /\ pret' = head
    /\ completed' = completed + 1
    /\ ppc' = "idle" /\ psrc' = 10
    /\ UNCHANGED <<ring_size, ring, locked_out_buffer, elem, count, count_hi, locked,
                   ci, cvars, outstanding, pushed, overlap>>

\* ------------------------------------------------------------- consumer
\* lock_out_nowait(n, buffer) is called
LockOutNowaitCall(n) ==
    /\ cpc = "idle"
    /\ cpc' = "nw_91" /\ creq' = n /\ cret' = 0 /\ cbuf' = -1 /\ cexit' = "none"
    /\ overlap' = (overlap \/ Clearing)
    /\ UNCHANGED <<bufvars, pvars, requested, outstanding, pushed, completed>>

\* if (locked.load() != -1) return -1;
LockOutNowait91 ==
    /\ cpc = "nw_91" /\ SomethingLockedOut
    /\ cret' = Failure /\ cexit' = "nw_93" /\ cpc' = "idle" /\ creq' = 0 /\ requested' = 0
    /\ UNCHANGED <<bufvars, pvars, cbuf, hvars>>

\* requested = mod2(n, ring_size); try_lock() succeeded: else { return -1; }
LockOutNowait109 ==
    /\ cpc = "nw_91" /\ ~SomethingLockedOut
    /\ TryLock(mod2(creq, ring_size))
    /\ requested' = 0 /\ creq' = 0
    /\ locks' = [locks EXCEPT ![mod2(creq, ring_size)] = "consumer"]
    /\ cret' = Failure /\ cexit' = "nw_109" /\ cpc' = "idle"
    /\ UNCHANGED <<ring_size, ring, locked_out_buffer, elem, head, count, count_hi, locked,
                   pvars, cbuf, hvars>>

\* requested = mod2(n, ring_size); if (!locks[requested].try_lock()) {
LockOutNowait98 ==
    /\ cpc = "nw_91" /\ ~SomethingLockedOut
    /\ ~TryLock(mod2(creq, ring_size))
    /\ requested' = mod2(creq, ring_size)
    /\ cpc' = "nw_100"
    /\ UNCHANGED <<bufvars, pvars, creq, cret, cbuf, cexit, hvars>>

\* locked.store(-2);
LockOutNowait100 ==
    /\ cpc = "nw_100"
    /\ locked' = Busy
    /\ cpc' = "nw_101"
    /\ UNCHANGED <<ring_size, ring, locked_out_buffer, elem, head, count, count_hi, locks,
                   pvars, creq, requested, cret, cbuf, cexit, hvars>>

\* _lock_out(requested), lines 50-52
LockOutNowait101 ==
    /\ cpc = "nw_101"
    /\ LET lo == lock_out_(requested) IN
         /\ ring' = lo.ring
         /\ locked_out_buffer' = lo.locked_out_buffer
    /\ cpc' = "nw_55"
    /\ UNCHANGED <<ring_size, elem, head, count, count_hi, locks, locked,
                   pvars, creq, requested, cret, cbuf, cexit, hvars>>

\* _lock_out(requested), line 55: ring[n]->index = n;
LockOutNowait55 ==
    /\ cpc = "nw_55"
    /\ elem' = [elem EXCEPT ![ring[requested]].index = requested]
    /\ cpc' = "nw_102"
    /\ UNCHANGED <<ring_size, ring, locked_out_buffer, head, count, count_hi, locks, locked,
                   pvars, creq, requested, cret, cbuf, cexit, hvars>>

\* locked.store(requested);
LockOutNowait102 ==
    /\ cpc = "nw_102"
    /\ locked' = requested
    /\ cpc' = "nw_103"
    /\ UNCHANGED <<ring_size, ring, locked_out_buffer, elem, head, count, count_hi, locks,
                   pvars, creq, requested, cret, cbuf, cexit, hvars>>

\* locks[requested].release();
LockOutNowait103 ==
    /\ cpc = "nw_103"
    /\ \E o \in ReleaseOutcomes(requested) :
         locks' = [locks EXCEPT ![requested] = o]
    /\ cpc' = "nw_104"
    /\ UNCHANGED <<ring_size, ring, locked_out_buffer, elem, head, count, count_hi, locked,
                   pvars, creq, requested, cret, cbuf, cexit, hvars>>

\* *buffer = locked_out_buffer->arr; return locked_out_buffer->count;
LockOutNowait104 ==
    /\ cpc = "nw_104"
    /\ cbuf' = locked_out_buffer
    /\ cret' = elem[locked_out_buffer].count
    /\ cexit' = "nw_105" /\ cpc' = "idle" /\ creq' = 0 /\ requested' = 0
    /\ outstanding' = TRUE
    /\ UNCHANGED <<bufvars, pvars, pushed, completed, overlap>>

\* lock_out_wait(n, buffer) is called
LockOutWaitCall(n) ==
    /\ cpc = "idle"
    /\ cpc' = "lw_116" /\ creq' = n /\ cret' = 0 /\ cbuf' = -1 /\ cexit' = "none"
    /\ overlap' = (overlap \/ Clearing)
    /\ UNCHANGED <<bufvars, pvars, requested, outstanding, pushed, completed>>

\* while (locked.load() != -1); int requested = mod2(n, ring_size);
LockOutWait116 ==
    /\ cpc = "lw_116" /\ ~SomethingLockedOut
    /\ requested' = mod2(creq, ring_size)
    /\ cpc' = "lw_118"
    /\ UNCHANGED <<bufvars, pvars, creq, cret, cbuf, cexit, hvars>>

\* while (!locks[requested].try_lock());
LockOutWait118 ==
    /\ cpc = "lw_118" /\ TryLock(requested)
    /\ locks' = [locks EXCEPT ![requested] = "consumer"]
    /\ cpc' = "lw_119"
    /\ UNCHANGED <<ring_size, ring, locked_out_buffer, elem, head, count, count_hi, locked,
                   pvars, creq, requested, cret, cbuf, cexit, hvars>>

\* mutant of LockOutWait119: locked.store(-2) is missing
LockOutWait119_nostore ==
    /\ cpc = "lw_119"
    /\ locked' = locked
    /\ cpc' = "lw_120"
    /\ UNCHANGED <<ring_size, ring, locked_out_buffer, elem, head, count, count_hi, locks,
                   pvars, creq, requested, cret, cbuf, cexit, hvars>>

\* locked.store(-2);
LockOutWait119 ==
    /\ cpc = "lw_119"
    /\ locked' = Busy
    /\ cpc' = "lw_120"
    /\ UNCHANGED <<ring_size, ring, locked_out_buffer, elem, head, count, count_hi, locks,
                   pvars, creq, requested, cret, cbuf, cexit, hvars>>

\* _lock_out(requested), lines 50-52
LockOutWait120 ==
    /\ cpc = "lw_120"
    /\ LET lo == lock_out_(requested) IN
         /\ ring' = lo.ring
         /\ locked_out_buffer' = lo.locked_out_buffer
    /\ cpc' = "lw_55"
    /\ UNCHANGED <<ring_size, elem, head, count, count_hi, locks, locked,
                   pvars, creq, requested, cret, cbuf, cexit, hvars>>

\* _lock_out(requested), line 55: ring[n]->index = n;
LockOutWait55 ==
    /\ cpc = "lw_55"
    /\ elem' = [elem EXCEPT ![ring[requested]].index = requested]
    /\ cpc' = "lw_121"
    /\ UNCHANGED <<ring_size, ring, locked_out_buffer, head, count, count_hi, locks, locked,
                   pvars, creq, requested, cret, cbuf, cexit, hvars>>

\* locks[requested].unlock();
LockOutWait121 ==
    /\ cpc = "lw_121"
    /\ \E o \in UnlockOutcomes(requested, "consumer") :
         locks' = [locks EXCEPT ![requested] = o]
    /\ cpc' = "lw_122"
    /\ UNCHANGED <<ring_size, ring, locked_out_buffer, elem, head, count, count_hi, locked,
                   pvars, creq, requested, cret, cbuf, cexit, hvars>>

\* *buffer = locked_out_buffer->arr; return locked_out_buffer->count;
LockOutWait122 ==
    /\ cpc = "lw_122"
    /\ cbuf' = locked_out_buffer
    /\ cret' = elem[locked_out_buffer].count
    /\ cexit' = "lw_123" /\ cpc' = "idle" /\ creq' = 0 /\ requested' = 0
    /\ outstanding' = TRUE
    /\ UNCHANGED <<bufvars, pvars, pushed, completed, overlap>>

\* mutant of Release: also marks the released element empty
Release_resetcount ==
    /\ cpc = "idle"
    /\ locked' = NoneLocked
    /\ elem' = [elem EXCEPT ![locked_out_buffer].count = EmptyCount]
    /\ cret' = 0 /\ cbuf' = -1 /\ cexit' = "release"
    /\ outstanding' = FALSE
    /\ overlap' = (overlap \/ Clearing)
    /\ UNCHANGED <<ring_size, ring, locked_out_buffer, head, count, count_hi, locks,
                   pvars, cpc, creq, requested, pushed, completed>>

\* release(): locked.store(-1);
Release ==
    /\ cpc = "idle"
    /\ locked' = NoneLocked
    /\ cret' = 0 /\ cbuf' = -1 /\ cexit' = "release"
    /\ outstanding' = FALSE
    /\ overlap' = (overlap \/ Clearing)
    /\ UNCHANGED <<ring_size, ring, locked_out_buffer, elem, head, count, count_hi, locks,
                   pvars, cpc, creq, requested, pushed, completed>>

\* ------------------------------------------------------ get_latest_index
\* get_latest_index() is called and returns (line 163)
GetLatestIndex ==
    /\ cpc = "idle"
    /\ cret' = get_latest_index /\ cbuf' = -1 /\ cexit' = "gli_163"
    /\ UNCHANGED <<bufvars, pvars, cpc, creq, requested, hvars>>

\* ----------------------------------------------------------------- clear
\* clear() is called (as at every producer call, the result of the previous
\* one is no longer kept)
ClearCall ==
    /\ ppc = "idle"
    /\ ppc' = "clear_171" /\ ci' = 0 /\ pret' = -1
    /\ overlap' = (overlap \/ cpc # "idle")
    /\ UNCHANGED <<bufvars, psrc, cvars, outstanding, pushed, completed>>

\* for (int i = 0; i < ring_size; i++) { while (!locks[i].try_lock());
Clear171 ==
    /\ ppc = "clear_171" /\ TryLock(ci)
    /\ locks' = [locks EXCEPT ![ci] = "producer"]
    /\ ppc' = "clear_172"
    /\ UNCHANGED <<ring_size, ring, locked_out_buffer, elem, head, count, count_hi, locked,
                   psrc, pret, ci, cvars, hvars>>

\* ring[i]->index = i;
Clear172 ==
    /\ ppc = "clear_172"
    /\ elem' = [elem EXCEPT ![ring[ci]].index = ci]
    /\ ppc' = "clear_173"
    /\ UNCHANGED <<ring_size, ring, locked_out_buffer, head, count, count_hi, locks, locked,
                   psrc, pret, ci, cvars, hvars>>

\* ring[i]->count = -1;
Clear173 ==
    /\ ppc = "clear_173"
    /\ elem' = [elem EXCEPT ![ring[ci]].count = EmptyCount]
    /\ ppc' = "clear_174"
    /\ UNCHANGED <<ring_size, ring, locked_out_buffer, head, count, count_hi, locks, locked,
                   psrc, pret, ci, cvars, hvars>>

\* locks[i].unlock(); } (i++, i < ring_size)
Clear174 ==
    /\ ppc = "clear_174"
    /\ \E o \in UnlockOutcomes(ci, "producer") : locks' = [locks EXCEPT ![ci] = o]
    /\ IF ci + 1 < ring_size
         THEN ppc' = "clear_171" /\ ci' = ci + 1
         ELSE ppc' = "clear_176" /\ ci' = 0
    /\ UNCHANGED <<ring_size, ring, locked_out_buffer, elem, head, count, count_hi, locked,
                   psrc, pret, cvars, hvars>>

\* mutant of Clear176: head = 0 is missing
Clear176_nohead ==
    /\ ppc = "clear_176"
    /\ count' = 0 /\ count_hi' = 0
    /\ head' = head
    /\ pushed' = <<>> /\ completed' = 0
    /\ ppc' = "clear_178"
    /\ UNCHANGED <<ring_size, ring, locked_out_buffer, elem, locks, locked,
                   psrc, pret, ci, cvars, outstanding, overlap>>

\* count = 0; head = 0;
Clear176 ==
    /\ ppc = "clear_176"
    /\ count' = 0 /\ count_hi' = 0
    /\ head' = 0
    /\ pushed' = <<>> /\ completed' = 0
    /\ ppc' = "clear_178"
    /\ UNCHANGED <<ring_size, ring, locked_out_buffer, elem, locks, locked,
                   psrc, pret, ci, cvars, outstanding, overlap>>

\* locked.store(-1);
Clear178 ==
    /\ ppc = "clear_178"
    /\ locked' = NoneLocked
    /\ outstanding' = FALSE
    /\ ppc' = "clear_179"
    /\ UNCHANGED <<ring_size, ring, locked_out_buffer, elem, head, count, count_hi, locks,
                   psrc, pret, ci, cvars, pushed, completed, overlap>>

\* locked_out_buffer->index = -1;
Clear179 ==
    /\ ppc = "clear_179"
    /\ elem' = [elem EXCEPT ![locked_out_buffer].index = SpareIndex]
    /\ ppc' = "clear_180"
    /\ UNCHANGED <<ring_size, ring, locked_out_buffer, head, count, count_hi, locks, locked,
                   psrc, pret, ci, cvars, hvars>>

\* locked_out_buffer->count = -1; }
Clear180 ==
    /\ ppc = "clear_180"
    /\ elem' = [elem EXCEPT ![locked_out_buffer].count = EmptyCount]
    /\ ppc' = "idle"
    /\ UNCHANGED <<ring_size, ring, locked_out_buffer, head, count, count_hi, locks, locked,
                   psrc, pret, ci, cvars, hvars>>

\* ------------------------------------------------------------------ Next
ProducerStep ==
    \/ Push133 \/ Push134 \/ Push135 \/ Push137
    \/ LockOutHead146 \/ ReleaseHead152 \/ ReleaseHead154
    \/ Clear171 \/ Clear172 \/ Clear173 \/ Clear174 \/ Clear176 \/ Clear178 \/ Clear179 \/ Clear180

ConsumerStep ==
    \/ LockOutNowait91 \/ LockOutNowait109 \/ LockOutNowait98
    \/ LockOutNowait100 \/ LockOutNowait101 \/ LockOutNowait55
    \/ LockOutNowait102 \/ LockOutNowait103 \/ LockOutNowait104
    \/ LockOutWait116 \/ LockOutWait118 \/ LockOutWait119 \/ LockOutWait120
    \/ LockOutWait55 \/ LockOutWait121 \/ LockOutWait122

Calls ==
    \/ \E f \in Frames : PushCall(f)
    \/ LockOutHeadCall
    \/ \E f \in Frames : WriteHead(f)
    \/ \E n \in Requests : LockOutNowaitCall(n)
    \/ \E n \in Requests : LockOutWaitCall(n)
    \/ Release
    \/ ClearCall

Next == ProducerStep \/ ConsumerStep \/ Calls

Spec == Init /\ [][Next]_vars

\* both threads are scheduled: a thread inside a call takes its next step
\* whenever that step stays possible (calls themselves are not forced)
FairSpec == Spec /\ WF_vars(ProducerStep) /\ WF_vars(ConsumerStep)

\* The conversion of line 163 on its own: count is any value within
\* MaxLatest of a multiple of 2^31 up to MaxHigh * 2^31 (the buffer is the
\* constructed one of one position, which get_latest_index() does not look
\* at), and get_latest_index() is called.
LatestCounts == (0..MaxLatest) \cup {IntMax - k : k \in 0..MaxLatest}

LatestInit ==
    /\ ring_size = 1
    /\ ring = [i \in {0} |-> 0]
    /\ locked_out_buffer = 1
    /\ elem = [e \in 0..1 |->
                 [arr |-> 10,
                  index |-> IF e = 1 THEN SpareIndex ELSE e,
                  count |-> EmptyCount]]
    /\ head = 0
    /\ count \in LatestCounts /\ count_hi \in 0..MaxHigh
    /\ locks = [i \in {0} |-> "free"]
    /\ locked = NoneLocked
    /\ ppc = "idle" /\ psrc = 10 /\ pret = -1 /\ ci = 0
    /\ cpc = "idle" /\ creq = 0 /\ requested = 0 /\ cret = 0 /\ cbuf = -1
    /\ cexit = "none"
    /\ outstanding = FALSE
    /\ pushed = <<>>
    /\ completed = 0
    /\ overlap = FALSE

LatestNext == GetLatestIndex

LatestSpec == LatestInit /\ [][LatestNext]_vars

TypeOK ==
    /\ ring_size \in 1..MaxRing
    /\ ring \in [Positions -> Elements]
    /\ locked_out_buffer \in Elements
    /\ head \in Positions
    /\ count \in 0..MaxPushes
    /\ count_hi = 0
    /\ locks \in [Positions -> {"free", "producer", "consumer"}]
    /\ locked \in {NoneLocked, Busy} \cup Positions
    /\ outstanding \in BOOLEAN
    /\ completed \in 0..MaxPushes
    /\ ci \in Positions
    /\ overlap \in BOOLEAN

\* ---------------------------------------------------------------- claims
\* clear() has been used as documented so far: no clear() was called during a
\* consumer call and no consumer call was made during a clear()
ContractKept == ~overlap

\* a lock-out call returns in this step (line 123, or line 105 of lock_out_nowait)
LockOutReturns ==
    /\ cpc \in {"lw_122", "nw_104"}
    /\ cpc' = "idle"

\* the consumer executes lines 91..98 of lock_out_nowait in this step
NowaitDecides ==
    /\ cpc = "nw_91"
    /\ cpc' # cpc

\* sequence n is still in the ring: max(1, count - ring_size + 1) <= n <= count
Resident(n) ==
    /\ n >= 1
    /\ n <= count
    /\ n >= count - ring_size + 1

\* C1: from the return of a lock-out until release(), no step writes the data
\* or changes the sequence of the element locked_out_buffer refers to.
C1_ConsumerIsolation ==
    [][(outstanding /\ outstanding' /\ ContractKept /\ ~Clearing)
         => /\ locked_out_buffer' = locked_out_buffer
            /\ elem'[locked_out_buffer].arr = elem[locked_out_buffer].arr
            /\ elem'[locked_out_buffer].count = elem[locked_out_buffer].count]_vars

\* C2: with no push in progress, lock_out_wait(n) for a sequence n still
\* resident in the ring returns n and the frame pushed as the n-th push.
C2_ExactHit ==
    [][(cpc = "lw_122" /\ cpc' = "idle" /\ ppc = "idle" /\ Resident(creq)
          /\ ContractKept)
         => /\ cret' = creq
            /\ elem[cbuf'].arr = FrameOf(creq)]_vars

\* C3: a lock-out for n, 1 <= n <= count, returns the sequence r of the frame
\* in the ring position frame n was stored in ((n - 1) mod ring_size), so
\* r is congruent to n modulo ring_size and r >= n.
C3_StaleSubstitution ==
    [][(LockOutReturns /\ creq >= 1 /\ creq <= count /\ ContractKept)
         => /\ cret' = elem[ring[mod2(creq - 1, ring_size)]].count
            /\ mod2(cret', ring_size) = mod2(creq, ring_size)
            /\ cret' >= creq]_vars

\* the lock-out returning in this step asked for an evicted sequence
\* (1 <= n <= count - ring_size) and no push is in progress
EvictedRequestReturns ==
    /\ LockOutReturns
    /\ ppc = "idle"
    /\ creq >= 1
    /\ creq <= count - ring_size
    /\ ContractKept

\* C4: a lock-out for an evicted sequence s returns the data and
\* sequence of the oldest resident frame, count - ring_size + 1, which is > s.
C4_WrapOldest ==
    [][EvictedRequestReturns
         => /\ cret' = count - ring_size + 1
            /\ elem[cbuf'].arr = FrameOf(count - ring_size + 1)
            /\ cret' > creq]_vars

\* C5: every push() call eventually returns (as long as clear() is used as
\* documented).
C5_ProducerProgress ==
    (ppc = "push_133" /\ ContractKept) ~> (ppc = "idle" \/ ~ContractKept)

\* C6: the ring positions and locked_out_buffer refer to ring_size + 1
\* pairwise distinct elements.
C6_SlotConservation ==
    ContractKept =>
      Cardinality({ring[p] : p \in Positions} \cup {locked_out_buffer}) = ring_size + 1

\* C7: lock_out_nowait(n) goes on to the lock-out when nothing is locked out
\* and the producer does not hold the lock of position n mod ring_size, and
\* returns -1 only if something is locked out or the producer holds that lock.
C7_NowaitContract ==
    [][(NowaitDecides /\ ContractKept)
         => LET r == mod2(creq, ring_size) IN
            /\ (~SomethingLockedOut /\ locks[r] # "producer") => cpc' = "nw_100"
            /\ (cpc' = "idle" /\ cret' = Failure)
                 => (SomethingLockedOut \/ locks[r] = "producer")]_vars

\* C8: a lock_out_nowait that returns the failure value -1 leaves the ring,
\* locked_out_buffer, head, count, the elements, locked and every lock as
\* they were.
C8_NoPartialEffects ==
    [][(NowaitDecides /\ cpc' = "idle" /\ cret' = Failure /\ ContractKept)
         => UNCHANGED bufvars]_vars

\* C9: while a lock-out is outstanding, every lock_out_nowait(n) returns -1
\* and changes nothing of the buffer.
C9_Exclusivity ==
    [][(NowaitDecides /\ outstanding /\ ContractKept)
         => /\ cpc' = "idle"
            /\ cret' = Failure
            /\ cbuf' = cbuf
            /\ UNCHANGED bufvars]_vars

\* C9 witness: a lock_out_nowait has returned through line 93 while a
\* lock-out is outstanding.
C9_Witness ==
    /\ outstanding /\ ContractKept
    /\ cpc = "idle" /\ cexit = "nw_93" /\ cret = Failure

\* the producer is between count += 1 and the return of push / release_head
Stamped == ppc \in {"push_137", "rh_154"}

\* C10, the steps of count (they hold in Spec, where count stays below
\* MaxPushes): count changes only by +1 in the stamp of push / release_head
\* and to 0 in clear(), and is the number of pushes completed since
\* construction or the last clear whenever no push is between its stamp and
\* its return.
C10_CountSteps ==
    /\ [](~Stamped => (count_hi = 0 /\ count = completed))
    /\ [](Stamped => (count_hi = 0 /\ count = completed + 1))
    /\ [][count' # count
            => \/ /\ count' = count + 1
                  /\ ppc \in {"push_135", "head_out"}
                  /\ Stamped'
               \/ /\ count' = 0
                  /\ ppc = "clear_176"
                  /\ completed' = 0]_vars

\* get_latest_index() is called and returns in this step
GetLatestIndexReturns ==
    /\ cexit # "gli_163"
    /\ cexit' = "gli_163"

\* C10: count being the number N of pushes completed (C10_CountSteps),
\* get_latest_index() returns it, for every N >= 0: the int returned is the
\* long count.
C10_SequenceMonotonicity ==
    [][GetLatestIndexReturns => (count_hi = 0 /\ cret' = count)]_vars

\* a clear() called as documented returns in this step (line 182)
ClearReturns ==
    /\ ppc = "clear_180" /\ ppc' = "idle"
    /\ ContractKept

\* clear() executes locked.store(-1) in this step (line 178)
ClearStores ==
    /\ ppc = "clear_178" /\ ppc' = "clear_179"

\* C11: after clear() get_latest_index() is 0, head is 0, nothing is checked
\* out and every element reachable through the ring and locked_out_buffer
\* has count -1; while no push has stamped since (count is 0), a lock-out
\* that returns reports -1, never a sequence >= 1.
C11_Reset ==
    /\ [][ClearReturns
            => /\ get_latest_index' = 0
               /\ head' = 0
               /\ locked' = NoneLocked
               /\ ~outstanding'
               /\ elem'[locked_out_buffer'].count = EmptyCount
               /\ \A p \in Positions : elem'[ring'[p]].count = EmptyCount]_vars
    /\ [][(LockOutReturns /\ count = 0 /\ ContractKept) => cret' = EmptyCount]_vars

\* C11 witness: a lock_out_wait returned a frame (sequence >= 1, so pushes
\* were made) and, with that frame still checked out, clear() was called and
\* has returned: count and head are 0, nothing is checked out any more, and
\* the element the consumer was given carries the empty sequence.
C11_Witness ==
    /\ ppc = "idle" /\ count = 0 /\ head = 0
    /\ cpc = "idle" /\ cexit = "lw_123" /\ cret >= 1
    /\ ~outstanding /\ locked = NoneLocked
    /\ elem[cbuf].count = EmptyCount
    /\ ContractKept

\* a lock_out_nowait call returns in this step (line 93, 109 or 105)
NowaitReturns ==
    /\ cpc \in {"nw_91", "nw_104"}
    /\ cpc' = "idle"

\* C12: a lock_out_nowait(n) with n > count returns -1; lock_out_wait(n),
\* n >= 1, does not return before count >= n and then returns element n (or
\* the element that replaced it).
C12_NotYetProduced ==
    /\ [][(NowaitReturns /\ creq > count /\ ContractKept) => cret' = Failure]_vars
    /\ [][(cpc = "lw_122" /\ cpc' = "idle" /\ creq >= 1 /\ ContractKept)
            => /\ creq <= count
               /\ cret' >= creq]_vars

\* push returns in this step (line 140)
PushReturns ==
    /\ ppc = "push_137"
    /\ ppc' = "idle"

\* release_head returns in this step (line 158)
ReleaseHeadReturns ==
    /\ ppc = "rh_154"
    /\ ppc' = "idle"

\* what a completed push of the frame last stamped leaves behind, in terms of
\* the state it was called in (head, and count = completed): the old head is
\* returned, head has advanced, count is one more, the element at the old
\* head carries the new count and the frame, and the producer's lock is free
PushEffect ==
    /\ pret' = head
    /\ head' = mod2(head + 1, ring_size)
    /\ count' = completed + 1
    /\ completed' = completed + 1
    /\ elem'[ring'[head]].count = count'
    /\ elem'[ring'[head]].arr = pushed'[Len(pushed')]
    /\ locks[head] = "producer" => locks'[head] = "free"
    /\ \A p \in Positions \ {head} : locks'[p] = locks[p]
    /\ UNCHANGED <<ring, locked_out_buffer, locked>>

\* C13: lock_out_head, a frame written through the returned pointer and
\* release_head leave what push of that frame leaves, and return the same
\* position: both paths end in PushEffect, push with the frame it was given.
C13_DirectWriteEquivalence ==
    /\ [][ReleaseHeadReturns => PushEffect]_vars
    /\ [][PushReturns => (PushEffect /\ elem'[ring'[head]].arr = psrc)]_vars

\* C13 witness: in a ring of 2, with the consumer inside a call, release_head
\* has stamped frame 20 as the third push and is about to return
C13_Witness ==
    /\ ppc = "rh_154" /\ ring_size = 2 /\ count = 3
    /\ elem[ring[head]].count = 3 /\ elem[ring[head]].arr = 20
    /\ cpc # "idle"

\* C14, first part: with the consumer outside a call, locked is -1 exactly
\* when no lock-out is outstanding.
C14_NoneIffIdle ==
    []((cpc = "idle" /\ ContractKept) => (locked = NoneLocked <=> ~outstanding))

\* C14, third part: locked changes only inside a lock-out, in release() and
\* in clear(); no step of push / lock_out_head / release_head changes it.
C14_Transitions ==
    [][locked' # locked
         => \/ cpc \in {"lw_119", "nw_100", "nw_102"}
            \/ cpc = "idle" /\ cpc' = "idle" /\ cexit' = "release"
            \/ ClearStores]_vars

\* C14: the two parts above, and from the return of a lock-out for n until
\* release() locked is the checked-out ring position n mod ring_size.
C14_CheckedOutStateMachine ==
    /\ C14_NoneIffIdle
    /\ C14_Transitions
    /\ [][(LockOutReturns /\ ContractKept) => locked' = mod2(creq, ring_size)]_vars
    /\ []((outstanding /\ ContractKept) => locked \in Positions)

\* release() runs in this step (a release() right after another changes
\* nothing)
ReleaseReturns ==
    /\ cpc = "idle" /\ cpc' = "idle"
    /\ cexit # "release"
    /\ cexit' = "release"

\* C15: release() sets locked to -1 and changes nothing else of the buffer;
\* locked_out_buffer keeps referring to the same element until the next
\* _lock_out.
C15_ReleaseFrame ==
    /\ [][ReleaseReturns
            => /\ locked' = NoneLocked
               /\ UNCHANGED <<ring_size, ring, locked_out_buffer, elem, head,
                              count, count_hi, locks>>]_vars
    /\ [][locked_out_buffer' # locked_out_buffer
            => cpc \in {"lw_120", "nw_101"}]_vars

\* C15 witness: release() has returned after a lock-out of a pushed frame;
\* locked_out_buffer still refers to that element
C15_Witness ==
    /\ cpc = "idle" /\ cexit = "release"
    /\ locked = NoneLocked
    /\ locked_out_buffer # ring_size
    /\ elem[locked_out_buffer].count >= 1

\* the producer is inside its write section on position head: after the
\* try_lock of line 133 / 146 and before the unlock of line 139 / 156
ProducerWrites ==
    ppc \in {"push_134", "push_135", "push_137", "head_out", "rh_154"}

\* the consumer is inside its swap section on position requested: after the
\* try_lock of line 118 / 98 and before the unlock of line 121 / 103 is done
ConsumerSwaps ==
    cpc \in {"lw_119", "lw_120", "lw_55", "lw_121",
             "nw_100", "nw_101", "nw_55", "nw_102", "nw_103"}

\* the consumer executes the unlock of line 121 / 103 in this step
ConsumerUnlocks ==
    /\ cpc \in {"lw_121", "nw_103"}
    /\ cpc' # cpc

\* C16: the producer's write section on a position and the consumer's swap
\* of that position are never active together, and a mutex stops being an
\* actor's only by that actor's own unlock (lines 139, 156, 174; 103, 121).
C16_SlotMutualExclusion ==
    /\ [](~(ProducerWrites /\ ConsumerSwaps /\ requested = head))
    /\ [][\A p \in Positions :
            /\ (locks[p] = "producer" /\ locks'[p] # "producer")
                 => (ppc \in {"push_137", "rh_154", "clear_174"} /\ ppc' # ppc)
            /\ (locks[p] = "consumer" /\ locks'[p] # "consumer")
                 => ConsumerUnlocks]_vars

\* C17: a lock_out_wait called while nothing is checked out eventually
\* returns.
C17_ConsumerProgress ==
    (cpc = "lw_116" /\ ~outstanding /\ ContractKept)
       ~> (cpc = "idle" \/ ~ContractKept)

\* C18: a lock_out_wait issued while a lock-out is outstanding stays at its
\* wait on line 116 and swaps nothing, whatever the producer does, until
\* release() is called (which the single consumer, being inside the call,
\* never does).
C18_AtMostOneLockOut ==
    [][(cpc = "lw_116" /\ outstanding /\ ContractKept)
          => /\ cpc' = "lw_116"
             /\ outstanding'
             /\ UNCHANGED <<ring, locked_out_buffer, locked>>]_vars

C18_Witness ==
    /\ cpc = "lw_116" /\ outstanding /\ locked = Busy /\ ContractKept
    /\ ppc = "push_137"
    /\ elem[locked_out_buffer].count >= 1
    /\ count > elem[locked_out_buffer].count

\* C19: whenever no push is in progress head is count mod ring_size and a
\* ring position; every push (push, or lock_out_head/release_head) returns
\* and has written position (c - 1) mod ring_size, c the count after it.
C19_CursorConsistency ==
    /\ []((ppc = "idle" \/ Clearing)
            => /\ head = mod2(count, ring_size)
               /\ head \in Positions)
    /\ [][(PushReturns \/ ReleaseHeadReturns)
            => /\ pret' = mod2(count' - 1, ring_size)
               /\ elem'[ring'[pret']].count = count'
               /\ elem'[ring'[pret']].arr = pushed'[Len(pushed')]]_vars

C19_Witness ==
    /\ ppc = "idle" /\ ring_size = 2
    /\ count = 3 /\ head = 1 /\ pret = 0
    /\ elem[ring[0]].count = 3
    /\ cexit = "release"

\* the sequences carried by the elements the ring positions refer to
RingSequences == {elem[ring[p]].count : p \in Positions} \ {EmptyCount}

\* C20: whenever the producer is outside its operations, the elements reached
\* through the ring carry exactly the sequences max(1, count - ring_size + 1)
\* .. count, sequence S at position (S - 1) mod ring_size, and every other
\* position carries -1, lock-outs and releases notwithstanding.
C20_ResidentSet ==
    [](ppc = "idle"
         => /\ \A p \in Positions :
                 LET S == elem[ring[p]].count IN
                   \/ S = EmptyCount /\ p >= count
                   \/ Resident(S) /\ mod2(S - 1, ring_size) = p
            /\ RingSequences = {n \in 1..count : Resident(n)})

C20_Witness ==
    /\ ppc = "idle" /\ ring_size = 2 /\ count = 3
    /\ cpc = "idle" /\ cexit = "lw_123" /\ cret = 3
    /\ RingSequences = {2, 3}
    /\ elem[ring[0]].count = 3 /\ elem[ring[1]].count = 2

====
